---- MODULE Spec2Model ----
(***************************************************************************)
(* The filing-notification e-mail builder of the entity-emailer queue      *)
(* service: entity_emailer/email_processors/filing_notification.py.        *)
(*                                                                         *)
(* process(email_info, token) is modelled as a sequential state machine,   *)
(* one action per statement group, with the collaborators (template store, *)
(* get_filing_info, legal-api document service, pay-api receipt service,   *)
(* get_recipients, logger, sentry capture_message) as the environment.     *)
(* Text that the code inspects character by character (the filing-type     *)
(* tag) is a sequence of one-character strings; every other text is a      *)
(* string.                                                                 *)
(***************************************************************************)
EXTENDS Integers, Sequences, FiniteSets, TLC

VARIABLES
    email_info,     \* the queue message: [type, option, filingId]
    pc,             \* position of process() in its body
    build,          \* ordinal of the current invocation (1 = first delivery)
    template,       \* local 'template' / 'filled_template' (None before line 148)
    filing,         \* local 'filing' returned by get_filing_info
    business,       \* local 'business' returned by get_filing_info
    html_out,       \* local 'html_out'
    pdfs,           \* local 'pdfs' of _get_pdfs, then of process
    recipients,     \* local 'recipients'
    subject,        \* local 'subject' (Unbound until an assignment reaches it)
    requests,       \* HTTP requests issued by this invocation, in order
    responses,      \* the responses they received, in order
    calls,          \* every collaborator called by this invocation, in order
    alerts,         \* capture_message(...) calls of this invocation
    errors,         \* logger.error(...) calls of this invocation
    returned,       \* the values process has returned: <<>> or <<message>>
    raised,         \* the exception that left process (None when none)
    env,            \* responses of the non-HTTP collaborators, as first given
    first           \* outcome of the first invocation, kept for comparison

vars == <<email_info, pc, build, template, filing, business, html_out, pdfs,
          recipients, subject, requests, responses, calls, alerts, errors,
          returned, raised, env, first>>

-----------------------------------------------------------------------------
(* Bounds of the model *)

\* number of deliveries of the same queue message that are modelled
MaxBuilds == 2

-----------------------------------------------------------------------------
(* Values *)

None == "None"          \* Python None / absent dictionary key
Unbound == "<unbound>"  \* a local variable no assignment has reached

HTTP_OK == 200
HTTP_CREATED == 201

PAID == "paid"
COMPLETED == "completed"
DRAFT == "draft"
PENDING == "pending"

\* filing-type tags, as character sequences
incorporationApplication ==
    <<"i", "n", "c", "o", "r", "p", "o", "r", "a", "t", "i", "o", "n",
      "A", "p", "p", "l", "i", "c", "a", "t", "i", "o", "n">>
annualReport == <<"a", "n", "n", "u", "a", "l", "R", "e", "p", "o", "r", "t">>
changeOfDirectors ==
    <<"c", "h", "a", "n", "g", "e", "O", "f", "D", "i", "r", "e", "c", "t", "o", "r", "s">>
changeOfAddress ==
    <<"c", "h", "a", "n", "g", "e", "O", "f", "A", "d", "d", "r", "e", "s", "s">>
correction == <<"c", "o", "r", "r", "e", "c", "t", "i", "o", "n">>
changeOfDirectorAddress ==
    <<"c", "h", "a", "n", "g", "e", "O", "f", "D", "i", "r", "e", "c", "t", "o", "r",
      "A", "d", "d", "r", "e", "s", "s">>

\* the tags a queue message may carry
MessageTypes == {incorporationApplication, annualReport, changeOfDirectors,
                 changeOfAddress, correction, changeOfDirectorAddress}

\* the filing types a stored filing may have
StoredTypes == {incorporationApplication, annualReport, changeOfDirectors,
                changeOfAddress}

\* the statuses a queue message may carry as its 'option'
Statuses == {PAID, COMPLETED, DRAFT, PENDING}

\* legal names found in a payload or business record; None = key absent
LegalNames == {None, "", "Acme Co"}

\* what get_recipients may return
RecipientLists == {"", "a@example.com, b@example.com"}

-----------------------------------------------------------------------------
(* Text helpers *)

LowerLetters == <<"a", "b", "c", "d", "e", "f", "g", "h", "i", "j", "k", "l", "m",
                  "n", "o", "p", "q", "r", "s", "t", "u", "v", "w", "x", "y", "z">>
UpperLetters == <<"A", "B", "C", "D", "E", "F", "G", "H", "I", "J", "K", "L", "M",
                  "N", "O", "P", "Q", "R", "S", "T", "U", "V", "W", "X", "Y", "Z">>

Range(s) == {s[i] : i \in DOMAIN s}

\* str.upper() of one character
UpperChar(c) ==
    IF c \in Range(LowerLetters)
    THEN UpperLetters[CHOOSE i \in DOMAIN LowerLetters : LowerLetters[i] = c]
    ELSE c

\* str.upper() of a text
Upper(s) == [i \in DOMAIN s |-> UpperChar(s[i])]

\* the string written by a character sequence
RECURSIVE ToStr(_)
ToStr(s) == IF s = <<>> THEN "" ELSE Head(s) \o ToStr(Tail(s))

\* ' '.join(parts), parts being character sequences
RECURSIVE JoinSpace(_)
JoinSpace(parts) ==
    IF parts = <<>> THEN <<>>
    ELSE IF Len(parts) = 1 THEN parts[1]
    ELSE parts[1] \o <<" ">> \o JoinSpace(Tail(parts))

\* length of the longest prefix of s matching [^A-Z]*
RECURSIVE NonUpperRun(_)
NonUpperRun(s) ==
    IF s = <<>> \/ Head(s) \in Range(UpperLetters) THEN 0
    ELSE 1 + NonUpperRun(Tail(s))

\* re.findall('[a-zA-Z][^A-Z]*', s): leftmost, greedy, non-overlapping matches
RECURSIVE FindAll(_)
FindAll(s) ==
    IF s = <<>> THEN <<>>
    ELSE IF Head(s) \notin (Range(LowerLetters) \cup Range(UpperLetters))
         THEN FindAll(Tail(s))
         ELSE LET n == 1 + NonUpperRun(Tail(s))
              IN  <<SubSeq(s, 1, n)>> \o FindAll(SubSeq(s, n + 1, Len(s)))

\* FilingName without the capital first letter
FilingName_NoCapital(filing_type) ==
    <<filing_type[1]>> \o JoinSpace(FindAll(Tail(filing_type)))

\* filing_type[0].upper() + ' '.join(re.findall('[a-zA-Z][^A-Z]*', filing_type[1:]))
FilingName(filing_type) ==
    <<UpperChar(filing_type[1])>> \o JoinSpace(FindAll(Tail(filing_type)))

\* 'x in s' for texts: x occurs in s as a contiguous run
IsSubstring(x, s) ==
    \E i \in 0..(Len(s) - Len(x)) : SubSeq(s, i + 1, i + Len(x)) = x

Address == <<"A", "d", "d", "r", "e", "s", "s">>
Director == <<"D", "i", "r", "e", "c", "t", "o", "r">>

-----------------------------------------------------------------------------
(* FILING_TYPE_CONVERTER *)

FILING_TYPE_CONVERTER ==
    ("incorporationApplication" :> "IA") @@
    ("annualReport" :> "AR") @@
    ("changeOfDirectors" :> "COD") @@
    ("changeOfAddress" :> "COA")

\* the file the template is read from (relative to TEMPLATE_PATH)
TemplateFile(filing_type, status) ==
    "BC-" \o FILING_TYPE_CONVERTER[ToStr(filing_type)] \o "-" \o status \o ".html"

-----------------------------------------------------------------------------
(* base64.b64encode(content).decode('utf-8'), content a sequence of bytes *)

B64Alphabet ==
    <<"A", "B", "C", "D", "E", "F", "G", "H", "I", "J", "K", "L", "M",
      "N", "O", "P", "Q", "R", "S", "T", "U", "V", "W", "X", "Y", "Z",
      "a", "b", "c", "d", "e", "f", "g", "h", "i", "j", "k", "l", "m",
      "n", "o", "p", "q", "r", "s", "t", "u", "v", "w", "x", "y", "z",
      "0", "1", "2", "3", "4", "5", "6", "7", "8", "9", "+", "/">>

B64Digit(n) == B64Alphabet[(n % 64) + 1]

RECURSIVE B64Encode(_)
B64Encode(bytes) ==
    IF bytes = <<>> THEN ""
    ELSE IF Len(bytes) = 1
    THEN LET n == bytes[1] * 65536
         IN  B64Digit(n \div 262144) \o B64Digit(n \div 4096) \o "=="
    ELSE IF Len(bytes) = 2
    THEN LET n == bytes[1] * 65536 + bytes[2] * 256
         IN  B64Digit(n \div 262144) \o B64Digit(n \div 4096) \o B64Digit(n \div 64) \o "="
    ELSE LET n == bytes[1] * 65536 + bytes[2] * 256 + bytes[3]
         IN  B64Digit(n \div 262144) \o B64Digit(n \div 4096) \o B64Digit(n \div 64)
             \o B64Digit(n) \o B64Encode(SubSeq(bytes, 4, Len(bytes)))

-----------------------------------------------------------------------------
(* The environment: collaborators of process() *)

FILING_ID == "42"
BUSINESS_ID == "BC1234567"
PAYMENT_TOKEN == "pay-7"
FILING_DATE_TIME == "May 5, 2020 at 1:41 pm Pacific time"
EFFECTIVE_DATE_TIME == "May 6, 2020 at 12:01 am Pacific time"
DASHBOARD_URL == "https://dashboard/"

\* the keys of filing.json['filing'] beside 'header' and 'business': the filing's
\* own type, and for an annual report possibly the changes filed with it
PayloadKeys(filing_type) ==
    IF filing_type = annualReport
    THEN {{"annualReport"}, {"annualReport", "changeOfAddress", "changeOfDirectors"}}
    ELSE {{ToStr(filing_type)}}

\* the (filing, business) pairs get_filing_info may return; only an incorporation
\* application carries a name request
FilingInfos ==
    {[found |-> TRUE,
      filing |-> [id |-> FILING_ID, filing_type |-> ft, payment_token |-> PAYMENT_TOKEN,
                  keys |-> ks, nameRequestLegalName |-> nr],
      business |-> [identifier |-> BUSINESS_ID, legalName |-> bn]] :
        <<ft, ks, nr, bn>> \in
            {x \in StoredTypes \X (SUBSET {"incorporationApplication", "annualReport",
                                           "changeOfAddress", "changeOfDirectors"})
                   \X LegalNames \X LegalNames :
                /\ x[2] \in PayloadKeys(x[1])
                /\ (x[1] # incorporationApplication => x[3] = None)}}

\* get_filing_info finds no such filing
NotFound == [found |-> FALSE]

\* the status codes a document or receipt request may be answered with
StatusCodes == {HTTP_OK, HTTP_CREATED, 503}

\* the bytes of the document a request asks for
Document(request) ==
    IF request.method = "POST" THEN <<37, 80, 68>>
    ELSE IF request.query = "type=noa" THEN <<37>>
    ELSE IF request.query = "type=certificate" THEN <<37, 80, 68, 70>>
    ELSE <<37, 80>>

\* the body of a response: the document on a 2xx status, an error text otherwise
Body(request, status_code) ==
    IF status_code \in 200..299 THEN Document(request) ELSE <<123, 125>>

Responses(request) ==
    {[status_code |-> c, content |-> Body(request, c)] : c \in StatusCodes}

-----------------------------------------------------------------------------
(* Pure parts of _get_pdfs and process *)

\* requests.get(f'{LEGAL_API_URL}/businesses/{identifier}/filings/{id}[?type=..]')
DocumentRequest(business_, filing_, query) ==
    [method |-> "GET", service |-> "LEGAL_API_URL",
     path |-> "/businesses/" \o business_.identifier \o "/filings/" \o filing_.id,
     query |-> query, json |-> <<>>]

\* CorpName taken from the business record whatever the filing type
CorpName_Business(business_, filing_) == business_.legalName

\* corp_name of the receipt request
CorpName(business_, filing_) ==
    IF ToStr(filing_.filing_type) = "incorporationApplication"
    THEN IF filing_.nameRequestLegalName = None THEN "Numbered Company"
         ELSE filing_.nameRequestLegalName
    ELSE business_.legalName

\* requests.post(f'{PAY_API_URL}/{payment_token}/receipts', json={...})
ReceiptRequest(business_, filing_, filing_date_time) ==
    [method |-> "POST", service |-> "PAY_API_URL",
     path |-> "/" \o filing_.payment_token \o "/receipts",
     query |-> None,
     json |-> <<[corpName |-> CorpName(business_, filing_),
                 filingDateTime |-> filing_date_time]>>]

\* DocumentFetched as the test 'response.ok': any 2xx status
DocumentFetched_Any2xx(response) == response.status_code \in 200..299

\* the test the code applies to the response of a GET for a document
DocumentFetched(response) == response.status_code = HTTP_OK

\* the test the code applies to the response of the POST for the receipt
ReceiptFetched(response) == response.status_code = HTTP_CREATED

\* FilingPdf with the file name built from the raw tag
FilingPdf_RawTag(filing_, response) ==
    [fileName |-> "Notice of " \o ToStr(filing_.filing_type) \o ".pdf",
     fileBytes |-> B64Encode(response.content),
     fileUrl |-> "",
     attachOrder |-> "1"]

FilingPdf(filing_, response) ==
    [fileName |-> "Notice of " \o ToStr(FilingName(filing_.filing_type)) \o ".pdf",
     fileBytes |-> B64Encode(response.content),
     fileUrl |-> "",
     attachOrder |-> "1"]

\* ReceiptPdf numbered by its position among the attachments fetched so far
ReceiptPdf_Renumbered(response) ==
    [fileName |-> "Receipt.pdf",
     fileBytes |-> B64Encode(response.content),
     fileUrl |-> "",
     attachOrder |-> IF pdfs = <<>> THEN "1" ELSE "2"]

ReceiptPdf(response) ==
    [fileName |-> "Receipt.pdf",
     fileBytes |-> B64Encode(response.content),
     fileUrl |-> "",
     attachOrder |-> "2"]

NoaPdf(response) ==
    [fileName |-> "Notice of Articles.pdf",
     fileBytes |-> B64Encode(response.content),
     fileUrl |-> "",
     attachOrder |-> "1"]

\* CertificatePdf numbered like the notice of articles
CertificatePdf_Order1(response) ==
    [fileName |-> "Incorporation Certificate.pdf",
     fileBytes |-> B64Encode(response.content),
     fileUrl |-> "",
     attachOrder |-> "1"]

CertificatePdf(response) ==
    [fileName |-> "Incorporation Certificate.pdf",
     fileBytes |-> B64Encode(response.content),
     fileUrl |-> "",
     attachOrder |-> "2"]

\* logger.error(...) and capture_message(..., level='error') of a failed fetch
ErrorLog(what, filing_) == "Failed to get " \o what \o " for filing: " \o filing_.id
Alert(what, filing_) ==
    [message |-> "Email Queue: filing id=" \o filing_.id \o ", error=" \o what,
     level |-> "error"]

\* AddressDirector taking the last match instead of the first
AddressDirector_Last(filing_type) ==
    LET found == SelectSeq(<<Address, Director>>, LAMBDA x : IsSubstring(x, filing_type))
    IN  found[Len(found)]

\* [x for x in ['Address', 'Director'] if x in filing_type][0]
AddressDirector(filing_type) ==
    SelectSeq(<<Address, Director>>, LAMBDA x : IsSubstring(x, filing_type))[1]

\* AssignedSubject with subject = '' set before the chain and no annualReport branch
AssignedSubject_NoAnnualReport(status, filing_type) ==
    IF status = PAID
    THEN IF ToStr(filing_type) = "incorporationApplication"
         THEN "Confirmation of Filing from the Business Registry"
         ELSE IF ToStr(filing_type) \in {"changeOfAddress", "changeOfDirectors"}
         THEN "Confirmation of " \o ToStr(AddressDirector(filing_type)) \o " Change"
         ELSE ""
    ELSE IF status = COMPLETED
    THEN IF ToStr(filing_type) = "incorporationApplication"
         THEN "Incorporation Documents from the Business Registry"
         ELSE IF ToStr(filing_type) \in {"changeOfAddress", "changeOfDirectors"}
         THEN "Notice of Articles"
         ELSE ""
    ELSE ""

\* the value of the local 'subject' after the if/elif chain of 'assign subject':
\* Unbound when no branch assigns it
AssignedSubject(status, filing_type) ==
    IF status = PAID
    THEN IF ToStr(filing_type) = "incorporationApplication"
         THEN "Confirmation of Filing from the Business Registry"
         ELSE IF ToStr(filing_type) \in {"changeOfAddress", "changeOfDirectors"}
         THEN "Confirmation of " \o ToStr(AddressDirector(filing_type)) \o " Change"
         ELSE IF ToStr(filing_type) = "annualReport"
         THEN "Confirmation of Annual Report"
         ELSE Unbound
    ELSE IF status = COMPLETED
    THEN IF ToStr(filing_type) = "incorporationApplication"
         THEN "Incorporation Documents from the Business Registry"
         ELSE IF ToStr(filing_type) \in {"changeOfAddress", "changeOfDirectors"}
         THEN "Notice of Articles"
         ELSE Unbound
    ELSE Unbound

\* legal_name of process
LegalName(business_, filing_) ==
    IF ToStr(filing_.filing_type) = "incorporationApplication"
    THEN filing_.nameRequestLegalName
    ELSE business_.legalName

\* Truthy as the test 'is not None'
Truthy_NotNone(x) == x # None

\* Python truthiness of an optional string
Truthy(x) == x # None /\ x # ""

\* subject = f'{legal_name} - {subject}' if legal_name else subject
FinalSubject(legal_name, subject_) ==
    IF Truthy(legal_name) THEN legal_name \o " - " \o subject_ ELSE subject_

-----------------------------------------------------------------------------
(* The state machine *)

locals == <<template, filing, business, html_out, pdfs, recipients, subject>>
logs == <<requests, responses, calls, alerts, errors>>

\* no collaborator has answered yet; an answer a is recorded as <<a>>
NoEnv == [template_exists |-> <<>>, filing_info |-> <<>>, recipients |-> <<>>]

Init ==
    /\ email_info \in [type : MessageTypes, option : Statuses, filingId : {FILING_ID}]
    /\ pc = "resolve_template"
    /\ build = 1
    /\ template = None
    /\ filing = None
    /\ business = None
    /\ html_out = None
    /\ pdfs = <<>>
    /\ recipients = None
    /\ subject = Unbound
    /\ requests = <<>>
    /\ responses = <<>>
    /\ calls = <<>>
    /\ alerts = <<>>
    /\ errors = <<>>
    /\ returned = <<>>
    /\ raised = None
    /\ env = NoEnv
    /\ first = <<>>

\* Raise as a handler that returns what has been built so far
Raise_Partial(exception) ==
    /\ pc' = "failed"
    /\ raised' = exception
    /\ returned' = <<[recipients |-> recipients,
                     requestBy |-> "BCRegistries@gov.bc.ca",
                     content |-> [subject |-> subject,
                                  body |-> html_out,
                                  attachments |-> pdfs]]>>

\* an exception leaves process: nothing is returned
Raise(exception) ==
    /\ pc' = "failed"
    /\ raised' = exception
    /\ returned' = <<>>

\* a collaborator that is not an HTTP service answers a redelivery as it answered
\* the first delivery
Answers(recorded, answer) == recorded = <<>> \/ recorded = <<answer>>

\* ResolveTemplate with the filing looked up before the template is resolved
ResolveTemplate_AfterLookup ==
    /\ pc = "resolve_template"
    /\ IF ToStr(email_info.type) \notin DOMAIN FILING_TYPE_CONVERTER
       THEN /\ Raise("KeyError")
            /\ calls' = Append(calls, "get_filing_info")
            /\ UNCHANGED <<locals, requests, responses, alerts, errors, env>>
       ELSE \E exists \in BOOLEAN :
            /\ Answers(env.template_exists, exists)
            /\ env' = [env EXCEPT !.template_exists = <<exists>>]
            /\ calls' = calls \o <<"get_filing_info", "read_text">>
            /\ IF exists
               THEN /\ template' = TemplateFile(email_info.type, email_info.option)
                    /\ pc' = "get_filing_info"
                    /\ UNCHANGED <<returned, raised>>
               ELSE /\ Raise("FileNotFoundError")
                    /\ UNCHANGED template
            /\ UNCHANGED <<filing, business, html_out, pdfs, recipients, subject,
                           requests, responses, alerts, errors>>
    /\ UNCHANGED <<email_info, build, first>>

\* lines 144-151: template = Path(.../BC-{FILING_TYPE_CONVERTER[filing_type]}-{status}.html).read_text()
ResolveTemplate ==
    /\ pc = "resolve_template"
    /\ IF ToStr(email_info.type) \notin DOMAIN FILING_TYPE_CONVERTER
       THEN /\ Raise("KeyError")
            /\ UNCHANGED <<locals, logs, env>>
       ELSE \E exists \in BOOLEAN :
            /\ Answers(env.template_exists, exists)
            /\ env' = [env EXCEPT !.template_exists = <<exists>>]
            /\ calls' = Append(calls, "read_text")
            /\ IF exists
               THEN /\ template' = TemplateFile(email_info.type, email_info.option)
                    /\ pc' = "get_filing_info"
                    /\ UNCHANGED <<returned, raised>>
               ELSE /\ Raise("FileNotFoundError")
                    /\ UNCHANGED template
            /\ UNCHANGED <<filing, business, html_out, pdfs, recipients, subject,
                           requests, responses, alerts, errors>>
    /\ UNCHANGED <<email_info, build, first>>

\* line 153: filing, business, ... = get_filing_info(email_info['filingId'])
GetFilingInfo ==
    /\ pc = "get_filing_info"
    /\ \E info \in FilingInfos \cup {NotFound} :
        /\ Answers(env.filing_info, info)
        /\ env' = [env EXCEPT !.filing_info = <<info>>]
        /\ calls' = Append(calls, "get_filing_info")
        /\ IF ~info.found
           THEN /\ Raise("FilingLookupError")
                /\ UNCHANGED <<filing, business>>
           ELSE /\ filing' = info.filing
                /\ business' = info.business
                /\ pc' = "render"
                /\ UNCHANGED <<returned, raised>>
    /\ UNCHANGED <<email_info, build, first, template, html_out, pdfs, recipients,
                   subject, requests, responses, alerts, errors>>

\* Render followed at once by the recipients' resolution, ahead of the attachments
Render_ThenRecipients ==
    /\ pc = "render"
    /\ IF ToStr(email_info.type) \notin filing.keys
       THEN /\ Raise("KeyError")
            /\ UNCHANGED <<html_out, calls, env, recipients>>
       ELSE /\ html_out' =
                [template |-> template,
                 business |-> business,
                 filing |-> ToStr(email_info.type),
                 header |-> "header",
                 filing_date_time |-> FILING_DATE_TIME,
                 effective_date_time |-> EFFECTIVE_DATE_TIME,
                 entity_dashboard_url |-> DASHBOARD_URL \o business.identifier,
                 email_header |-> ToStr(Upper(FilingName(filing.filing_type)))]
            /\ \E rs \in RecipientLists :
                  /\ Answers(env.recipients, rs)
                  /\ env' = [env EXCEPT !.recipients = <<rs>>]
                  /\ recipients' = rs
            /\ calls' = calls \o <<"render", "get_recipients">>
            /\ pc' = "get_pdfs"
            /\ UNCHANGED <<returned, raised>>
    /\ UNCHANGED <<email_info, build, first, template, filing, business, pdfs,
                   subject, requests, responses, alerts, errors>>

\* lines 154-166: filing_name and jnja_template.render(...)
Render ==
    /\ pc = "render"
    /\ IF ToStr(email_info.type) \notin filing.keys
       THEN /\ Raise("KeyError")
            /\ UNCHANGED <<html_out, calls>>
       ELSE /\ html_out' =
                [template |-> template,
                 business |-> business,
                 filing |-> ToStr(email_info.type),
                 header |-> "header",
                 filing_date_time |-> FILING_DATE_TIME,
                 effective_date_time |-> EFFECTIVE_DATE_TIME,
                 entity_dashboard_url |-> DASHBOARD_URL \o business.identifier,
                 email_header |-> ToStr(Upper(FilingName(filing.filing_type)))]
            /\ calls' = Append(calls, "render")
            /\ pc' = "get_pdfs"
            /\ UNCHANGED <<returned, raised>>
    /\ UNCHANGED <<email_info, build, first, env, template, filing, business, pdfs,
                   recipients, subject, requests, responses, alerts, errors>>

\* one HTTP exchange of _get_pdfs: the request is issued and answered
Exchange(service, request, response) ==
    /\ requests' = Append(requests, request)
    /\ responses' = Append(responses, response)
    /\ calls' = Append(calls, service)

\* Handle with response.raise_for_status() in place of the status test
Handle_Raises(fetched, log_what, what, attachment, next_pc) ==
    IF fetched
    THEN /\ pdfs' = Append(pdfs, attachment)
         /\ pc' = next_pc
         /\ UNCHANGED <<alerts, errors, returned, raised>>
    ELSE /\ pc' = "failed"
         /\ raised' = "HTTPError"
         /\ UNCHANGED <<pdfs, alerts, errors, returned>>

\* Handle that logs a failed fetch without reporting it to the monitoring sink
Handle_NoAlert(fetched, log_what, what, attachment, next_pc) ==
    /\ IF fetched
       THEN /\ pdfs' = Append(pdfs, attachment)
            /\ UNCHANGED <<alerts, errors>>
       ELSE /\ errors' = Append(errors, ErrorLog(log_what, filing))
            /\ UNCHANGED <<alerts, pdfs>>
    /\ pc' = next_pc
    /\ UNCHANGED <<returned, raised>>

\* Handle that gives up the remaining fetches after a failed one
Handle_StopsAtFailure(fetched, log_what, what, attachment, next_pc) ==
    /\ IF fetched
       THEN /\ pdfs' = Append(pdfs, attachment)
            /\ pc' = next_pc
            /\ UNCHANGED <<alerts, errors>>
       ELSE /\ errors' = Append(errors, ErrorLog(log_what, filing))
            /\ alerts' = Append(alerts, Alert(what, filing))
            /\ pc' = "get_recipients"
            /\ UNCHANGED pdfs
    /\ UNCHANGED <<returned, raised>>

\* what _get_pdfs does with an answer: when its test of the status code fails it
\* logs and alerts, otherwise it appends the attachment; either way it goes on
Handle(fetched, log_what, what, attachment, next_pc) ==
    /\ IF fetched
       THEN /\ pdfs' = Append(pdfs, attachment)
            /\ UNCHANGED <<alerts, errors>>
       ELSE /\ errors' = Append(errors, ErrorLog(log_what, filing))
            /\ alerts' = Append(alerts, Alert(what, filing))
            /\ UNCHANGED pdfs
    /\ pc' = next_pc
    /\ UNCHANGED <<returned, raised>>

\* lines 48-68: status paid, the filing pdf
FetchFilingPdf ==
    /\ pc = "get_pdfs"
    /\ email_info.option = PAID
    /\ LET request == DocumentRequest(business, filing, None)
       IN  \E response \in Responses(request) :
             /\ Exchange("legal_api", request, response)
             /\ Handle(DocumentFetched(response), "pdf", "pdf generation",
                       FilingPdf(filing, response), "receipt")
    /\ UNCHANGED <<email_info, build, first, env, template, filing, business, html_out,
                   recipients, subject>>

\* lines 69-96: status paid, the receipt pdf
FetchReceipt ==
    /\ pc = "receipt"
    /\ LET request == ReceiptRequest(business, filing, FILING_DATE_TIME)
       IN  \E response \in Responses(request) :
             /\ Exchange("pay_api", request, response)
             /\ Handle(ReceiptFetched(response), "receipt pdf", "receipt generation",
                       ReceiptPdf(response), "get_recipients")
    /\ UNCHANGED <<email_info, build, first, env, template, filing, business, html_out,
                   recipients, subject>>

\* AfterNoa without the test of the filing type
AfterNoa_Always(filing_) == "certificate"

\* line 118: the certificate is fetched for an incorporation application only
AfterNoa(filing_) ==
    IF ToStr(filing_.filing_type) = "incorporationApplication"
    THEN "certificate" ELSE "get_recipients"

\* lines 97-116: status completed, the notice of articles
FetchNoa ==
    /\ pc = "get_pdfs"
    /\ email_info.option = COMPLETED
    /\ LET request == DocumentRequest(business, filing, "type=noa")
       IN  \E response \in Responses(request) :
             /\ Exchange("legal_api", request, response)
             /\ Handle(DocumentFetched(response), "noa pdf", "noa generation",
                       NoaPdf(response), AfterNoa(filing))
    /\ UNCHANGED <<email_info, build, first, env, template, filing, business, html_out,
                   recipients, subject>>

\* lines 118-137: status completed, incorporation application, the certificate
FetchCertificate ==
    /\ pc = "certificate"
    /\ LET request == DocumentRequest(business, filing, "type=certificate")
       IN  \E response \in Responses(request) :
             /\ Exchange("legal_api", request, response)
             /\ Handle(DocumentFetched(response), "certificate pdf",
                       "certificate generation", CertificatePdf(response),
                       "get_recipients")
    /\ UNCHANGED <<email_info, build, first, env, template, filing, business, html_out,
                   recipients, subject>>

\* NoPdfs with the completed branch written as the 'else' of the paid branch
NoPdfs_Else ==
    /\ pc = "get_pdfs"
    /\ email_info.option # PAID
    /\ email_info.option # COMPLETED
    /\ LET request == DocumentRequest(business, filing, "type=noa")
       IN  \E response \in Responses(request) :
             /\ Exchange("legal_api", request, response)
             /\ Handle(DocumentFetched(response), "noa pdf", "noa generation",
                       NoaPdf(response), AfterNoa(filing))
    /\ UNCHANGED <<email_info, build, first, env, template, filing, business, html_out,
                   recipients, subject>>

\* lines 43-48, 97, 139: neither paid nor completed, _get_pdfs returns []
NoPdfs ==
    /\ pc = "get_pdfs"
    /\ email_info.option # PAID
    /\ email_info.option # COMPLETED
    /\ pc' = "get_recipients"
    /\ UNCHANGED <<email_info, build, first, env, locals, logs, returned, raised>>

\* line 172: recipients = get_recipients(status, filing.filing_json, token)
GetRecipients ==
    /\ pc = "get_recipients"
    /\ \E rs \in RecipientLists :
        /\ Answers(env.recipients, rs)
        /\ env' = [env EXCEPT !.recipients = <<rs>>]
        /\ recipients' = rs
    /\ calls' = Append(calls, "get_recipients")
    /\ pc' = "assign_subject"
    /\ UNCHANGED <<email_info, build, first, template, filing, business, html_out, pdfs,
                   subject, requests, responses, alerts, errors, returned, raised>>

\* lines 174-191: the if/elif chain, then 'if not subject:' reads the local
AssignSubject ==
    /\ pc = "assign_subject"
    /\ LET assigned == AssignedSubject(email_info.option, email_info.type)
       IN  IF assigned = Unbound
           THEN /\ Raise("UnboundLocalError")
                /\ UNCHANGED subject
           ELSE /\ subject' = IF assigned = ""
                              THEN "Notification from the BC Business Registry"
                              ELSE assigned
                /\ pc' = "return"
                /\ UNCHANGED <<returned, raised>>
    /\ UNCHANGED <<email_info, build, first, env, template, filing, business, html_out,
                   pdfs, recipients, logs>>

\* lines 193-209: the legal-name prefix and the returned dictionary
Return ==
    /\ pc = "return"
    /\ subject' = FinalSubject(LegalName(business, filing), subject)
    /\ returned' = <<[recipients |-> recipients,
                     requestBy |-> "BCRegistries@gov.bc.ca",
                     content |-> [subject |-> subject',
                                  body |-> html_out,
                                  attachments |-> pdfs]]>>
    /\ pc' = "done"
    /\ UNCHANGED <<email_info, build, first, env, template, filing, business, html_out,
                   pdfs, recipients, logs, raised>>

\* what an invocation leaves behind for its caller
Outcome ==
    [returned |-> returned, raised |-> raised, requests |-> requests,
     responses |-> responses, calls |-> calls, alerts |-> alerts, errors |-> errors]

\* Redeliver with 'pdfs' living across invocations (a module-level list or a
\* mutable default argument)
Redeliver_KeepsPdfs ==
    /\ pc \in {"done", "failed"}
    /\ build < MaxBuilds
    /\ build' = build + 1
    /\ first' = IF build = 1 THEN <<Outcome>> ELSE first
    /\ pc' = "resolve_template"
    /\ template' = None
    /\ filing' = None
    /\ business' = None
    /\ html_out' = None
    /\ recipients' = None
    /\ subject' = Unbound
    /\ requests' = <<>>
    /\ responses' = <<>>
    /\ calls' = <<>>
    /\ alerts' = <<>>
    /\ errors' = <<>>
    /\ returned' = <<>>
    /\ raised' = None
    /\ UNCHANGED <<email_info, env, pdfs>>

\* the queue delivers the same message again: process is invoked anew
Redeliver ==
    /\ pc \in {"done", "failed"}
    /\ build < MaxBuilds
    /\ build' = build + 1
    /\ first' = IF build = 1 THEN <<Outcome>> ELSE first
    /\ pc' = "resolve_template"
    /\ template' = None
    /\ filing' = None
    /\ business' = None
    /\ html_out' = None
    /\ pdfs' = <<>>
    /\ recipients' = None
    /\ subject' = Unbound
    /\ requests' = <<>>
    /\ responses' = <<>>
    /\ calls' = <<>>
    /\ alerts' = <<>>
    /\ errors' = <<>>
    /\ returned' = <<>>
    /\ raised' = None
    /\ UNCHANGED <<email_info, env>>

Next ==
    \/ ResolveTemplate
    \/ GetFilingInfo
    \/ Render
    \/ FetchFilingPdf
    \/ FetchReceipt
    \/ FetchNoa
    \/ FetchCertificate
    \/ NoPdfs
    \/ GetRecipients
    \/ AssignSubject
    \/ Return
    \/ Redeliver

Spec == Init /\ [][Next]_vars

TypeOK ==
    /\ pc \in {"resolve_template", "get_filing_info", "render", "get_pdfs", "receipt",
               "certificate", "get_recipients", "assign_subject", "return", "done",
               "failed"}
    /\ build \in 1..MaxBuilds
    /\ Len(pdfs) <= 2

-----------------------------------------------------------------------------
(* Vocabulary of the properties *)

\* the documented subject table: (status, filing type) -> base subject
SubjectTable ==
    (<<"paid", "incorporationApplication">> :>
        "Confirmation of Filing from the Business Registry") @@
    (<<"paid", "changeOfAddress">> :> "Confirmation of Address Change") @@
    (<<"paid", "changeOfDirectors">> :> "Confirmation of Director Change") @@
    (<<"paid", "annualReport">> :> "Confirmation of Annual Report") @@
    (<<"completed", "incorporationApplication">> :>
        "Incorporation Documents from the Business Registry") @@
    (<<"completed", "changeOfAddress">> :> "Notice of Articles") @@
    (<<"completed", "changeOfDirectors">> :> "Notice of Articles")

FallbackSubject == "Notification from the BC Business Registry"

\* the (status, filing type) pair of the message being processed
Pair == <<email_info.option, ToStr(email_info.type)>>

\* the documented name of the primary document of a filing type
NoticeFileName ==
    ("incorporationApplication" :> "Notice of Incorporation Application.pdf") @@
    ("annualReport" :> "Notice of Annual Report.pdf") @@
    ("changeOfDirectors" :> "Notice of Change Of Directors.pdf") @@
    ("changeOfAddress" :> "Notice of Change Of Address.pdf")

\* process has returned a message
Done == pc = "done"

\* process has ended, by a return or by an exception
Ended == pc \in {"done", "failed"}

\* _get_pdfs has returned to process
PdfsReturned ==
    \/ pc \in {"get_recipients", "assign_subject", "return", "done"}
    \/ pc = "failed" /\ raised = "UnboundLocalError"

\* the i-th request of the invocation was answered with the status the service
\* gives on success: 200 OK for a document, 201 Created for a receipt
Succeeded(i) ==
    responses[i].status_code = IF requests[i].method = "POST" THEN 201 ELSE 200

\* the names and attach orders of an attachment sequence
NamesAndOrders(attachments) ==
    [i \in DOMAIN attachments |-> <<attachments[i].fileName, attachments[i].attachOrder>>]

\* neither the name request nor the business carries a usable legal name
NoLegalName ==
    /\ filing.nameRequestLegalName \in {None, ""}
    /\ business.legalName \in {None, ""}

-----------------------------------------------------------------------------
(* C1: for each of the seven (status, filing type) pairs of the subject    *)
(* table, when no legal name is resolvable, the returned content.subject is *)
(* exactly the base subject of the table (so never the fallback subject).   *)
C1_TableSubject ==
    (Done /\ Pair \in DOMAIN SubjectTable /\ NoLegalName)
        => /\ returned[1].content.subject = SubjectTable[Pair]
           /\ returned[1].content.subject # FallbackSubject

\* a message for (completed, changeOfDirectors) without legal name was returned
C1_Witness ==
    /\ Done
    /\ Pair = <<"completed", "changeOfDirectors">>
    /\ NoLegalName
    /\ returned[1].content.subject = "Notice of Articles"

(* C2: for a pair outside the subject table whose build reaches subject    *)
(* composition (type in the converter, template read, filing found), the    *)
(* build does not fail and the returned subject has the fallback base.      *)
C2_FallbackSubject ==
    (Ended /\ Pair \notin DOMAIN SubjectTable
           /\ calls # <<>> /\ calls[Len(calls)] = "get_recipients")
        => /\ Done
           /\ returned[1].content.subject \in
                {FallbackSubject} \cup
                {n \o " - " \o FallbackSubject : n \in LegalNames \ {None, ""}}

(* C3: in status paid, when the filing-pdf and the receipt fetch both      *)
(* succeed the attachments are exactly [Notice of <name>.pdf order 1,       *)
(* Receipt.pdf order 2]; when only the receipt fetch fails, exactly the     *)
(* primary document with order 1 remains.                                   *)
C3_PaidAttachments ==
    (PdfsReturned /\ email_info.option = PAID)
        => /\ (Succeeded(1) /\ Succeeded(2))
                => NamesAndOrders(pdfs) =
                     << <<NoticeFileName[ToStr(filing.filing_type)], "1">>,
                        <<"Receipt.pdf", "2">> >>
           /\ (Succeeded(1) /\ ~Succeeded(2))
                => NamesAndOrders(pdfs) =
                     << <<NoticeFileName[ToStr(filing.filing_type)], "1">> >>

\* a redelivered paid incorporation application: both attachments the first time,
\* only the notice the second time, the receipt service answering 503
C3_Witness ==
    /\ Done
    /\ build = 2
    /\ email_info.option = PAID
    /\ NamesAndOrders(first[1].returned[1].content.attachments) =
         << <<"Notice of Incorporation Application.pdf", "1">>, <<"Receipt.pdf", "2">> >>
    /\ responses[2].status_code = 503
    /\ NamesAndOrders(pdfs) = << <<"Notice of Incorporation Application.pdf", "1">> >>


\* a is b with some entries left out, the others in their order
IsSubSeq(a, b) ==
    \E f \in [DOMAIN a -> DOMAIN b] :
        /\ \A i \in DOMAIN a : a[i] = b[f[i]]
        /\ \A i, j \in DOMAIN a : i < j => f[i] < f[j]

\* the requests of the invocation that were not answered with the success status
FailedFetches == {i \in DOMAIN responses : ~Succeeded(i)}

(* C4: a failed fetch does not abort the build. Two deliveries of the same  *)
(* message, answered alike by every collaborator except for the outcomes of *)
(* the document and receipt requests, end the same way and return the same  *)
(* recipients, requestBy, subject and body; against a delivery whose        *)
(* fetches all succeeded, only the attachments of the failed fetches are     *)
(* missing.                                                                  *)
C4_FetchFailureDoesNotAbort ==
    (Ended /\ build > 1)
        => /\ raised = first[1].raised
           /\ Len(returned) = Len(first[1].returned)
           /\ returned # <<>> =>
                LET now == returned[1]
                    before == first[1].returned[1]
                IN  /\ now.recipients = before.recipients
                    /\ now.requestBy = before.requestBy
                    /\ now.content.subject = before.content.subject
                    /\ now.content.body = before.content.body
                    /\ first[1].alerts = <<>> =>
                         /\ IsSubSeq(now.content.attachments, before.content.attachments)
                         /\ Len(now.content.attachments) =
                              Len(before.content.attachments) - Cardinality(FailedFetches)

\* the first delivery had both attachments, the second had both fetches answered
\* 503 and still returned a message, without attachments
C4_Witness ==
    /\ Done
    /\ build = 2
    /\ Len(first[1].returned[1].content.attachments) = 2
    /\ Len(responses) = 2
    /\ responses[1].status_code = 503
    /\ responses[2].status_code = 503
    /\ returned[1].content.attachments = <<>>
    /\ returned[1].content.subject = first[1].returned[1].content.subject

\* a returned message has every field set
Complete(message) ==
    /\ DOMAIN message = {"recipients", "requestBy", "content"}
    /\ DOMAIN message.content = {"subject", "body", "attachments"}
    /\ message.recipients \in RecipientLists
    /\ message.requestBy = "BCRegistries@gov.bc.ca"
    /\ message.content.subject \notin {"", None, Unbound}
    /\ DOMAIN message.content.body =
         {"template", "business", "filing", "header", "filing_date_time",
          "effective_date_time", "entity_dashboard_url", "email_header"}

(* C5: when the filing type is not in FILING_TYPE_CONVERTER, or the         *)
(* template file does not exist, process fails and returns nothing; every    *)
(* invocation ends either with one complete message or with an exception     *)
(* and no message at all.                                                    *)
C5_FailsWithoutMessage ==
    /\ (ToStr(email_info.type) \notin DOMAIN FILING_TYPE_CONVERTER
            /\ pc # "resolve_template")
          => (pc = "failed" /\ raised = "KeyError" /\ returned = <<>>)
    /\ (env.template_exists = <<FALSE>> /\ pc # "resolve_template")
          => (pc = "failed" /\ raised = "FileNotFoundError" /\ returned = <<>>)
    /\ Done => (raised = None /\ Len(returned) = 1 /\ Complete(returned[1]))
    /\ pc = "failed" => (raised # None /\ returned = <<>>)
    /\ ~Ended => returned = <<>>

\* a message of type 'correction', which has no code, made process fail
C5_Witness ==
    /\ email_info.type = correction
    /\ pc = "failed"
    /\ raised = "KeyError"
    /\ returned = <<>>
    /\ calls = <<>>

(* C6: the attach order belongs to the slot: in status paid, with the        *)
(* filing-pdf fetch failed and the receipt fetched, the only attachment is    *)
(* Receipt.pdf with order 2; in status completed for an incorporation         *)
(* application, with the notice of articles failed and the certificate        *)
(* fetched, the only attachment is Incorporation Certificate.pdf, order 2.    *)
C6_AttachOrderPerSlot ==
    /\ (PdfsReturned /\ email_info.option = PAID
            /\ ~Succeeded(1) /\ Succeeded(2))
          => NamesAndOrders(pdfs) = << <<"Receipt.pdf", "2">> >>
    /\ (PdfsReturned /\ email_info.option = COMPLETED
            /\ ToStr(filing.filing_type) = "incorporationApplication"
            /\ ~Succeeded(1) /\ Succeeded(2))
          => NamesAndOrders(pdfs) = << <<"Incorporation Certificate.pdf", "2">> >>

\* a completed incorporation application returned with the certificate alone
C6_Witness ==
    /\ Done
    /\ email_info.option = COMPLETED
    /\ Len(responses) = 2
    /\ responses[1].status_code = 503
    /\ responses[2].status_code = 200
    /\ NamesAndOrders(returned[1].content.attachments) =
         << <<"Incorporation Certificate.pdf", "2">> >>

\* the base subject of the message being processed
BaseSubject == IF Pair \in DOMAIN SubjectTable THEN SubjectTable[Pair] ELSE FallbackSubject

(* C7: the returned subject is '<legal name> - <base subject>' when a legal  *)
(* name is resolvable and the base subject alone otherwise; the legal name   *)
(* is the name request's legalName for an incorporation application and the  *)
(* business's legalName for any other filing; an absent or empty name is not *)
(* resolvable.                                                               *)
C7_LegalNamePrefix ==
    Done =>
        LET name == IF ToStr(filing.filing_type) = "incorporationApplication"
                    THEN filing.nameRequestLegalName
                    ELSE business.legalName
        IN  returned[1].content.subject =
                IF name \in {None, ""} THEN BaseSubject
                ELSE name \o " - " \o BaseSubject

\* the paid incorporation application of Acme Co, the business itself unnamed
C7_Witness ==
    /\ Done
    /\ Pair = <<"paid", "incorporationApplication">>
    /\ filing.nameRequestLegalName = "Acme Co"
    /\ business.legalName = ""
    /\ returned[1].content.subject =
         "Acme Co - Confirmation of Filing from the Business Registry"

\* the query strings of the requests issued so far
Queries == [i \in DOMAIN requests |-> requests[i].query]

(* C8: in status completed, _get_pdfs always requests the 'noa' variant and  *)
(* attaches it as Notice of Articles.pdf, order 1, when fetched; it requests  *)
(* the 'certificate' variant exactly for an incorporation application and     *)
(* attaches it as Incorporation Certificate.pdf, order 2, when fetched; it    *)
(* never issues the primary-document or the receipt request.                  *)
C8_CompletedFetches ==
    email_info.option = COMPLETED =>
        /\ \A i \in DOMAIN requests :
              /\ requests[i].method = "GET"
              /\ requests[i].service = "LEGAL_API_URL"
              /\ requests[i].query \in {"type=noa", "type=certificate"}
        /\ PdfsReturned =>
              LET ia == ToStr(filing.filing_type) = "incorporationApplication"
                  noa == IF Succeeded(1)
                         THEN << <<"Notice of Articles.pdf", "1">> >> ELSE <<>>
                  certificate == IF ia /\ Succeeded(2)
                                 THEN << <<"Incorporation Certificate.pdf", "2">> >>
                                 ELSE <<>>
              IN  /\ Queries = IF ia THEN <<"type=noa", "type=certificate">>
                                     ELSE <<"type=noa">>
                  /\ NamesAndOrders(pdfs) = noa \o certificate

\* a completed change of address: one request, the notice of articles attached
C8_Witness ==
    /\ Done
    /\ Pair = <<"completed", "changeOfAddress">>
    /\ Queries = <<"type=noa">>
    /\ NamesAndOrders(returned[1].content.attachments) =
         << <<"Notice of Articles.pdf", "1">> >>

(* C9: for a status other than paid and completed, _get_pdfs returns an      *)
(* empty sequence for every filing type, issues no request and raises no     *)
(* alert.                                                                    *)
C9_OtherStatusNoPdfs ==
    email_info.option \notin {PAID, COMPLETED} =>
        /\ pdfs = <<>>
        /\ requests = <<>>
        /\ responses = <<>>
        /\ alerts = <<>>
        /\ errors = <<>>
        /\ \A i \in DOMAIN calls : calls[i] \notin {"legal_api", "pay_api"}

\* _get_pdfs has returned [] for a draft filing
C9_Witness ==
    /\ email_info.option = DRAFT
    /\ pc = "get_recipients"
    /\ pdfs = <<>>
    /\ requests = <<>>

(* C10: the alerts raised in a build, all of level 'error', are as many as   *)
(* the fetches that failed, and so are the error logs; a completed change of *)
(* address whose notice-of-articles fetch fails returns a message without    *)
(* attachments and raises exactly one alert.                                 *)
C10_OneAlertPerFailedFetch ==
    /\ Len(responses) = Len(requests)
    /\ Len(alerts) = Cardinality(FailedFetches)
    /\ Len(errors) = Cardinality(FailedFetches)
    /\ \A i \in DOMAIN alerts : alerts[i].level = "error"
    /\ (Ended /\ Pair = <<"completed", "changeOfAddress">>
            /\ responses # <<>> /\ ~Succeeded(1))
          => /\ Done
             /\ returned[1].content.attachments = <<>>
             /\ Len(alerts) = 1

\* the completed change of address whose notice-of-articles fetch got a 503
C10_Witness ==
    /\ Done
    /\ Pair = <<"completed", "changeOfAddress">>
    /\ responses[1].status_code = 503
    /\ returned[1].content.attachments = <<>>
    /\ alerts = <<[message |-> "Email Queue: filing id=42, error=noa generation",
                   level |-> "error"]>>

-----------------------------------------------------------------------------
(* Slots: the attachment and the alert that belong to a request *)

\* the file name of the attachment the i-th request is made for
SlotFile(i) ==
    IF requests[i].method = "POST" THEN "Receipt.pdf"
    ELSE IF requests[i].query = "type=noa" THEN "Notice of Articles.pdf"
    ELSE IF requests[i].query = "type=certificate" THEN "Incorporation Certificate.pdf"
    ELSE NoticeFileName[ToStr(filing.filing_type)]

\* the error named by the alert and the thing named by the log of the i-th request
SlotError(i) ==
    IF requests[i].method = "POST" THEN "receipt generation"
    ELSE IF requests[i].query = "type=noa" THEN "noa generation"
    ELSE IF requests[i].query = "type=certificate" THEN "certificate generation"
    ELSE "pdf generation"

SlotLog(i) ==
    IF requests[i].method = "POST" THEN "receipt pdf"
    ELSE IF requests[i].query = "type=noa" THEN "noa pdf"
    ELSE IF requests[i].query = "type=certificate" THEN "certificate pdf"
    ELSE "pdf"

\* the attachment of the i-th request is among the attachments
Present(i) == \E j \in DOMAIN pdfs : pdfs[j].fileName = SlotFile(i)

\* an alert of level 'error' was raised for the i-th request
Alerted(i) ==
    \E j \in DOMAIN alerts :
        alerts[j] = [message |-> "Email Queue: filing id=42, error=" \o SlotError(i),
                     level |-> "error"]

\* an error was logged for the i-th request
Logged(i) ==
    \E j \in DOMAIN errors :
        errors[j] = "Failed to get " \o SlotLog(i) \o " for filing: 42"

\* the i-th request was answered with a 2xx status
Is2xx(i) == responses[i].status_code \in 200..299

(* C11 as stated: a fetch fails exactly when its answer is non-2xx: after   *)
(* every 2xx answer the attachment of the request is present and no alert   *)
(* is raised, after every other answer it is omitted, logged and alerted.   *)
C11_FailedIffNon2xx ==
    \A i \in DOMAIN responses :
        /\ Is2xx(i) => (Present(i) /\ ~Alerted(i) /\ ~Logged(i))
        /\ ~Is2xx(i) => (~Present(i) /\ Alerted(i) /\ Logged(i))

(* C11 as amended: a fetch fails exactly when its answer does not carry the *)
(* one status the code accepts, 200 for a document request and 201 for the  *)
(* receipt request: after that status the attachment is present and nothing *)
(* is logged or alerted; after any other status, 2xx or not, the attachment *)
(* is omitted with one log entry and one alert.                             *)
C11_FailedIffNotExpectedStatus ==
    \A i \in DOMAIN responses :
        /\ Succeeded(i) => (Present(i) /\ ~Alerted(i) /\ ~Logged(i))
        /\ ~Succeeded(i) => (~Present(i) /\ Alerted(i) /\ Logged(i))

\* a paid filing whose document request was answered 201 and whose receipt request
\* was answered 200: both 2xx, both attachments omitted, two alerts
C11_Witness ==
    /\ Done
    /\ email_info.option = PAID
    /\ responses[1].status_code = 201
    /\ responses[2].status_code = 200
    /\ returned[1].content.attachments = <<>>
    /\ Len(alerts) = 2

FetchCalls ==
    IF email_info.option = PAID THEN <<"legal_api", "pay_api">>
    ELSE IF email_info.option = COMPLETED
    THEN IF ToStr(filing.filing_type) = "incorporationApplication"
         THEN <<"legal_api", "legal_api">> ELSE <<"legal_api">>
    ELSE <<>>

\* the steps of a build that returned a message took place in this order: the
\* given opening steps, the fetches, the recipients, and only then the subject
StepsInOrder(opening) ==
    /\ subject # Unbound => (calls # <<>> /\ calls[Len(calls)] = "get_recipients")
    /\ Done => calls = opening \o FetchCalls \o <<"get_recipients">>

(* C13 as stated: in a build that returns a message the filing info is      *)
(* resolved first, then the template is resolved and rendered, then the     *)
(* attachments are assembled, then the recipients are resolved, then the    *)
(* subject is composed.                                                     *)
C13_FilingInfoFirst ==
    StepsInOrder(<<"get_filing_info", "read_text", "render">>)

(* C13 as amended: in a build that returns a message the template is read   *)
(* first, then the filing info is resolved, then the template is rendered,  *)
(* then the attachments are assembled, then the recipients are resolved,    *)
(* then the subject is composed; no step starts before the previous ended.  *)
C13_TemplateFirst ==
    StepsInOrder(<<"read_text", "get_filing_info", "render">>)

\* a paid build returned after its five kinds of steps
C13_Witness ==
    /\ Done
    /\ calls = <<"read_text", "get_filing_info", "render", "legal_api", "pay_api",
                 "get_recipients">>

(* C14: a failed fetch neither blocks nor fails another fetch of the build: *)
(* in status paid the receipt request is issued after the filing-pdf        *)
(* request whatever its answer, in status completed for an incorporation    *)
(* application the certificate request is issued after the notice of        *)
(* articles whatever its answer, and the attachment of a request is present *)
(* exactly when that request's own answer was accepted.                     *)
C14_FetchesIndependent ==
    PdfsReturned =>
        /\ email_info.option = PAID =>
              /\ Len(requests) = 2
              /\ requests[1].method = "GET" /\ requests[1].query = None
              /\ requests[2].method = "POST"
        /\ (email_info.option = COMPLETED
              /\ ToStr(filing.filing_type) = "incorporationApplication")
              => Queries = <<"type=noa", "type=certificate">>
        /\ \A i \in DOMAIN requests : Present(i) <=> Succeeded(i)

\* a paid build whose filing-pdf request got a 503 and whose receipt was fetched
C14_Witness ==
    /\ Done
    /\ email_info.option = PAID
    /\ responses[1].status_code = 503
    /\ responses[2].status_code = 201
    /\ NamesAndOrders(returned[1].content.attachments) = << <<"Receipt.pdf", "2">> >>

\* the tag of the message contains both 'Address' and 'Director'
BothTokens ==
    IsSubstring(Address, email_info.type) /\ IsSubstring(Director, email_info.type)

\* the subject is the given base subject, with or without a legal-name prefix
SubjectHasBase(s, base) ==
    s \in {base} \cup {n \o " - " \o base : n \in LegalNames \ {None, ""}}

(* C15 as stated: for a filing type whose tag contains both 'Address' and   *)
(* 'Director', subject composition in status paid does not crash and gives  *)
(* the base subject 'Confirmation of Address Change'.                       *)
C15_BothTokensGiveAddress ==
    (BothTokens /\ email_info.option = PAID /\ Ended)
        => /\ Done
           /\ SubjectHasBase(returned[1].content.subject,
                             "Confirmation of Address Change")

(* C15 as amended: the scan of the fixed list ['Address', 'Director'] takes *)
(* the first token that occurs in the tag, 'Address' for a tag with both;   *)
(* process runs it only for the tags changeOfAddress and changeOfDirectors, *)
(* whose paid subjects are 'Confirmation of Address Change' and             *)
(* 'Confirmation of Director Change'. A tag with both tokens is not in      *)
(* FILING_TYPE_CONVERTER: process fails on it with KeyError before any      *)
(* subject is composed.                                                     *)
C15_TieBreak ==
    /\ BothTokens =>
          /\ AddressDirector(email_info.type) = Address
          /\ ToStr(email_info.type) \notin DOMAIN FILING_TYPE_CONVERTER
          /\ pc # "resolve_template" =>
                (pc = "failed" /\ raised = "KeyError" /\ subject = Unbound
                   /\ returned = <<>>)
    /\ (Done /\ email_info.option = PAID /\ email_info.type = changeOfAddress)
          => SubjectHasBase(returned[1].content.subject,
                            "Confirmation of Address Change")
    /\ (Done /\ email_info.option = PAID /\ email_info.type = changeOfDirectors)
          => SubjectHasBase(returned[1].content.subject,
                            "Confirmation of Director Change")

\* a paid message of type changeOfDirectorAddress made process fail
C15_Witness ==
    /\ email_info.type = changeOfDirectorAddress
    /\ BothTokens
    /\ email_info.option = PAID
    /\ pc = "failed"
    /\ raised = "KeyError"

\* the tag with one space put before every uppercase letter after the first character
RECURSIVE SpaceBeforeCapitals(_)
SpaceBeforeCapitals(s) ==
    IF s = <<>> THEN <<>>
    ELSE (IF Head(s) \in Range(UpperLetters) THEN <<" ", Head(s)>> ELSE <<Head(s)>>)
         \o SpaceBeforeCapitals(Tail(s))

\* the documented human-readable names, and the same in capitals
HumanReadable ==
    ("incorporationApplication" :> "Incorporation Application") @@
    ("changeOfDirectors" :> "Change Of Directors") @@
    ("annualReport" :> "Annual Report") @@
    ("changeOfAddress" :> "Change Of Address")

HumanReadableCapitals ==
    ("incorporationApplication" :> "INCORPORATION APPLICATION") @@
    ("changeOfDirectors" :> "CHANGE OF DIRECTORS") @@
    ("annualReport" :> "ANNUAL REPORT") @@
    ("changeOfAddress" :> "CHANGE OF ADDRESS")

(* C16: the human-readable filing name is the tag with its first letter     *)
(* capitalised and one space before every later uppercase letter, as in     *)
(* 'Incorporation Application', 'Change Of Directors', 'Annual Report' and  *)
(* 'Change Of Address'; the file name of the primary attachment and the     *)
(* e-mail header are built from it, the header in capitals.                 *)
C16_FilingName ==
    /\ \A t \in MessageTypes :
          FilingName(t) = <<UpperLetters[CHOOSE i \in 1..26 : LowerLetters[i] = t[1]]>>
                             \o SpaceBeforeCapitals(Tail(t))
    /\ \A t \in StoredTypes : ToStr(FilingName(t)) = HumanReadable[ToStr(t)]
    /\ PdfsReturned =>
          /\ html_out.email_header = HumanReadableCapitals[ToStr(filing.filing_type)]
          /\ (email_info.option = PAID /\ Succeeded(1))
                => pdfs[1].fileName =
                     "Notice of " \o HumanReadable[ToStr(filing.filing_type)] \o ".pdf"

\* a paid change of directors: the notice and the header carry the same name
C16_Witness ==
    /\ Done
    /\ Pair = <<"paid", "changeOfDirectors">>
    /\ filing.filing_type = changeOfDirectors
    /\ Len(returned[1].content.attachments) = 2
    /\ returned[1].content.attachments[1].fileName = "Notice of Change Of Directors.pdf"
    /\ returned[1].content.body.email_header = "CHANGE OF DIRECTORS"

(* C17: in status paid the receipt request carries as corpName the name     *)
(* request's legalName for an incorporation application, 'Numbered Company' *)
(* when that legalName is absent, and the business's legalName for any      *)
(* other filing type; it carries the rendered filing date/time as bound in  *)
(* the body; and so whether the filing-pdf fetch succeeded or not.          *)
C17_ReceiptRequest ==
    (email_info.option = PAID /\ Len(requests) = 2) =>
        LET sent == requests[2].json[1]
            ia == ToStr(filing.filing_type) = "incorporationApplication"
        IN  /\ requests[2].method = "POST"
            /\ requests[2].path = "/pay-7/receipts"
            /\ DOMAIN sent = {"corpName", "filingDateTime"}
            /\ (ia /\ filing.nameRequestLegalName = None)
                  => sent.corpName = "Numbered Company"
            /\ (ia /\ filing.nameRequestLegalName # None)
                  => sent.corpName = filing.nameRequestLegalName
            /\ ~ia => sent.corpName = business.legalName
            /\ sent.filingDateTime = html_out.filing_date_time
            /\ sent.filingDateTime = "May 5, 2020 at 1:41 pm Pacific time"

\* a paid incorporation application without a requested name, its filing pdf not
\* fetched: the receipt is asked for 'Numbered Company'
C17_Witness ==
    /\ email_info.option = PAID
    /\ Len(requests) = 2
    /\ ToStr(filing.filing_type) = "incorporationApplication"
    /\ filing.nameRequestLegalName = None
    /\ business.legalName = "Acme Co"
    /\ responses[1].status_code = 503
    /\ requests[2].json[1].corpName = "Numbered Company"

\* the base64 text of the documents the services hand out
ExpectedBase64 ==
    (<<37>> :> "JQ==") @@
    (<<37, 80>> :> "JVA=") @@
    (<<37, 80, 68>> :> "JVBE") @@
    (<<37, 80, 68, 70>> :> "JVBERg==")

\* the attach order as a number
OrderNumber(attachment) == IF attachment.attachOrder = "1" THEN 1 ELSE 2

(* C18: whatever the status, the filing type and the outcomes of the        *)
(* fetches, the attachment sequence has at most two entries, attach orders  *)
(* among 1 and 2 that increase strictly along it (so no order and no file   *)
(* name occurs twice), an empty fileUrl in every entry, and in every entry  *)
(* the base64 text of exactly the bytes its own request was answered with.  *)
C18_AttachmentSequence ==
    /\ Len(pdfs) <= 2
    /\ \A j \in DOMAIN pdfs :
          /\ pdfs[j].attachOrder \in {"1", "2"}
          /\ pdfs[j].fileUrl = ""
          /\ DOMAIN pdfs[j] = {"fileName", "fileBytes", "fileUrl", "attachOrder"}
    /\ \A j, k \in DOMAIN pdfs :
          j < k => /\ OrderNumber(pdfs[j]) < OrderNumber(pdfs[k])
                   /\ pdfs[j].fileName # pdfs[k].fileName
    /\ \A j \in DOMAIN pdfs :
          \E i \in DOMAIN requests :
              /\ pdfs[j].fileName = SlotFile(i)
              /\ pdfs[j].fileBytes = ExpectedBase64[responses[i].content]
    /\ Done => returned[1].content.attachments = pdfs

\* a completed incorporation application with both of its documents
C18_Witness ==
    /\ Done
    /\ email_info.option = COMPLETED
    /\ Len(returned[1].content.attachments) = 2
    /\ returned[1].content.attachments[1].fileBytes = "JQ=="
    /\ returned[1].content.attachments[2].fileBytes = "JVBERg=="
    /\ returned[1].content.attachments[2].attachOrder = "2"

\* the collaborators outside the process: filing-info provider, document
\* service, payment service and recipient resolver
ExternalCalls == {"get_filing_info", "legal_api", "pay_api", "get_recipients"}

\* process has aborted while resolving the template
AbortedOnTemplate ==
    /\ pc = "failed"
    /\ \/ ToStr(email_info.type) \notin DOMAIN FILING_TYPE_CONVERTER
       \/ raised = "FileNotFoundError"

(* C19: when process aborts because the filing type is not a key of         *)
(* FILING_TYPE_CONVERTER or because the template file cannot be read, no    *)
(* external collaborator has been called (filing-info provider, document    *)
(* service, payment service, recipient resolver), no request has been sent  *)
(* and no monitoring alert has been raised.                                 *)
C19_AbortBeforeCollaborators ==
    AbortedOnTemplate =>
        /\ \A i \in DOMAIN calls : calls[i] \notin ExternalCalls
        /\ requests = <<>>
        /\ responses = <<>>
        /\ alerts = <<>>
        /\ env.filing_info = <<>>
        /\ env.recipients = <<>>
        /\ raised \in {"KeyError", "FileNotFoundError"}
        /\ raised = "KeyError" <=> calls = <<>>
        /\ raised = "FileNotFoundError" <=> calls = <<"read_text">>

\* the template of a known type is missing
C19_Witness ==
    /\ pc = "failed"
    /\ raised = "FileNotFoundError"
    /\ ToStr(email_info.type) \in DOMAIN FILING_TYPE_CONVERTER
    /\ env.template_exists = <<FALSE>>
    /\ calls = <<"read_text">>

====
